---------------------------- MODULE Spec2Model ----------------------------
(***************************************************************************)
(* A model of src/src/main.rs: a thread-per-connection HTTP/1.1 server.    *)
(*                                                                         *)
(* A byte is a one-token string ("G", "/", ...); CR and LF are the tokens  *)
(* "CR" and "LF"; BAD is a byte that is not valid UTF-8.  A Rust String or *)
(* Vec<u8> is a sequence of bytes.  Option<T> is a sequence of length 0    *)
(* (None) or 1 (Some).                                                     *)
(***************************************************************************)
EXTENDS Integers, Sequences, FiniteSets, TLC

(***************************************************************************)
(* Bounds of the model.                                                    *)
(***************************************************************************)
\* Connections the listener accepts in one run.
MaxConn == 2

(***************************************************************************)
(* Bytes and the literals the source compares against.                     *)
(***************************************************************************)
CR == "CR"
LF == "LF"
SP == " "
BAD == "xFF"
CRLF == <<CR, LF>>

sGET == <<"G", "E", "T">>
sPOST == <<"P", "O", "S", "T">>
sDELETE == <<"D", "E", "L", "E", "T", "E">>
sRoot == <<"/">>
sEchoPrefix == <<"/", "e", "c", "h", "o", "/">>
sUserAgentPath == <<"/", "u", "s", "e", "r", "-", "a", "g", "e", "n", "t">>
sFilesPrefix == <<"/", "f", "i", "l", "e", "s", "/">>
sContentLength == <<"C", "o", "n", "t", "e", "n", "t", "-", "L", "e", "n", "g", "t", "h">>
sUserAgent == <<"U", "s", "e", "r", "-", "A", "g", "e", "n", "t">>
sColonSp == <<":", SP>>
pEcho == <<"/", "e", "c", "h", "o">>
sLowerContentLength ==
    <<"c", "o", "n", "t", "e", "n", "t", "-", "l", "e", "n", "g", "t", "h">>
sTextPlain == <<"t", "e", "x", "t", "/", "p", "l", "a", "i", "n">>
sOctetStream ==
    <<"a", "p", "p", "l", "i", "c", "a", "t", "i", "o", "n", "/", "o", "c", "t", "e", "t", "-", "s", "t", "r", "e", "a", "m">>

sHttpVersion == <<"H", "T", "T", "P", "/", "1", ".", "1">>
sHttpPrefix == <<"H", "T", "T", "P", "/", "1", ".", "1", SP>>
sContentTypeHdr == <<"C", "o", "n", "t", "e", "n", "t", "-", "T", "y", "p", "e", ":", SP>>
sContentLengthHdr == <<"C", "o", "n", "t", "e", "n", "t", "-", "L", "e", "n", "g", "t", "h", ":", SP>>
s200 == <<"2", "0", "0", SP, "O", "K">>
s201 == <<"2", "0", "1", SP, "C", "r", "e", "a", "t", "e", "d">>
s404 == <<"4", "0", "4", SP, "N", "o", "t", SP, "F", "o", "u", "n", "d">>
s500 ==
    <<"5", "0", "0", SP, "I", "n", "t", "e", "r", "n", "a", "l", SP, "S", "e", "r", "v", "e", "r", SP, "E", "r", "r", "o", "r">>

None == <<>>
Some(x) == <<x>>

(***************************************************************************)
(* String operations of the Rust standard library, as the source uses them *)
(***************************************************************************)
\* str::from_utf8 / String::from_utf8 succeed iff every byte is valid.
IsUtf8(s) == \A i \in 1..Len(s) : s[i] # BAD

\* Index of the first occurrence of byte b in s, 0 when there is none.
IndexOf(s, b) ==
    IF \E i \in 1..Len(s) : s[i] = b
    THEN CHOOSE i \in 1..Len(s) : s[i] = b /\ \A j \in 1..(i - 1) : s[j] # b
    ELSE 0

\* str::starts_with
StartsWith(s, p) == Len(s) >= Len(p) /\ SubSeq(s, 1, Len(p)) = p

\* A strip that takes a bare LF for a line end as well.
StripSuffixAnyLF(s) ==
    IF Len(s) >= 2 /\ SubSeq(s, Len(s) - 1, Len(s)) = CRLF
    THEN Some(SubSeq(s, 1, Len(s) - 2))
    ELSE IF Len(s) >= 1 /\ s[Len(s)] = LF
    THEN Some(SubSeq(s, 1, Len(s) - 1))
    ELSE None

\* str::strip_suffix("\r\n"): Some(prefix) or None.
StripSuffixCRLF(s) ==
    IF Len(s) >= 2 /\ SubSeq(s, Len(s) - 1, Len(s)) = CRLF
    THEN Some(SubSeq(s, 1, Len(s) - 2))
    ELSE None

\* str::split(sep) for a one-byte separator: the pieces between separators,
\* empty pieces kept ("a//b" -> "a", "", "b"; "" -> "").
RECURSIVE Split(_, _)
Split(s, sep) ==
    LET i == IndexOf(s, sep) IN
    IF i = 0 THEN <<s>>
    ELSE <<SubSeq(s, 1, i - 1)>> \o Split(SubSeq(s, i + 1, Len(s)), sep)

\* str::split_once(": "): Some(<<before, after>>) at the first ": ", or None.
SplitOnce(s) ==
    IF \E i \in 1..(Len(s) - 1) : SubSeq(s, i, i + 1) = sColonSp
    THEN LET i == CHOOSE k \in 1..(Len(s) - 1) :
                    /\ SubSeq(s, k, k + 1) = sColonSp
                    /\ \A j \in 1..(k - 1) : SubSeq(s, j, j + 1) # sColonSp
         IN Some(<<SubSeq(s, 1, i - 1), SubSeq(s, i + 2, Len(s))>>)
    ELSE None

\* Iterator::skip(n) on a collected Vec.
Skip(v, n) == IF Len(v) <= n THEN <<>> ELSE SubSeq(v, n + 1, Len(v))

\* [&str]::join(sep)
RECURSIVE Join(_, _)
Join(parts, sep) ==
    IF Len(parts) = 0 THEN <<>>
    ELSE IF Len(parts) = 1 THEN parts[1]
    ELSE parts[1] \o <<sep>> \o Join(Tail(parts), sep)

\* Display of a usize: its decimal digits.
Digit(d) == <<"0", "1", "2", "3", "4", "5", "6", "7", "8", "9">>[d + 1]
RECURSIVE Decimal(_)
Decimal(n) == IF n < 10 THEN <<Digit(n)>> ELSE Decimal(n \div 10) \o <<Digit(n % 10)>>

(***************************************************************************)
(* Request, Response and the handlers (pure functions of the request, the  *)
(* configured directory and the outcome of the file operation).            *)
(***************************************************************************)
\* read_request's initial Request value.
EmptyRequest ==
    [method |-> <<>>, path |-> <<>>, http_info |-> <<>>, headers |-> <<>>,
     body |-> <<>>]

\* A lookup that returns the value of the last header whose name equals key.
get_header_Last(req, key) ==
    IF \E i \in 1..Len(req.headers) : req.headers[i][1] = key
    THEN LET i == CHOOSE k \in 1..Len(req.headers) :
                    /\ req.headers[k][1] = key
                    /\ \A j \in (k + 1)..Len(req.headers) : req.headers[j][1] # key
         IN Some(req.headers[i][2])
    ELSE None

\* Request::get_header: the value of the first header whose name equals key.
get_header(req, key) ==
    IF \E i \in 1..Len(req.headers) : req.headers[i][1] = key
    THEN LET i == CHOOSE k \in 1..Len(req.headers) :
                    /\ req.headers[k][1] = key
                    /\ \A j \in 1..(k - 1) : req.headers[j][1] # key
         IN Some(req.headers[i][2])
    ELSE None

\* Option::unwrap_or
UnwrapOr(opt, default) == IF opt = None THEN default ELSE opt[1]

Response(status, body, content_type) ==
    [status |-> status, body |-> body, content_type |-> content_type]

\* A handler's Result<Response, Error>.
Ok(res) == [ok |-> TRUE, res |-> res]
Err(kind) == [ok |-> FALSE, err |-> kind]
\* The handler panicked (an index out of bounds).
Panicked == [ok |-> FALSE, err |-> "panic"]

handle_get_root(req) == Ok(Response("OK", None, None))

\* An echo that drops the empty segments of the path before joining.
NonEmptySeg(x) == x # <<>>
handle_get_echo_DropEmpty(req) ==
    LET parts == SelectSeq(Skip(Split(req.path, "/"), 2), NonEmptySeg)
        param == Join(parts, "/")
    IN Ok(Response("OK", Some(param), Some(sTextPlain)))

handle_get_echo(req) ==
    LET parts == Skip(Split(req.path, "/"), 2)
        param == Join(parts, "/")
    IN Ok(Response("OK", Some(param), Some(sTextPlain)))

handle_get_user_agent(req) ==
    Ok(Response("OK", Some(UnwrapOr(get_header(req, sUserAgent), <<>>)),
                Some(sTextPlain)))

\* req.path.split("/").skip(2).collect() of both file handlers; parts[0] is
\* the file name and panics when parts is empty.
PathParts(path) == Skip(Split(path, "/"), 2)
\* A file name made of the whole remainder of the path.
FileNameWholeRest(path) == Join(PathParts(path), "/")
FileNameOf(path) == PathParts(path)[1]

\* The file system is a function from the names of the files that exist in
\* the configured directory to their contents.
\* fs::read(dir.join(filename)) on file system f.  The joined path of an
\* empty file name is the directory itself, which cannot be read as a file;
\* io = "fail" is any other I/O failure (permissions, device errors).
FsRead(f, filename, io) ==
    IF io = "fail" \/ filename = <<>> THEN [kind |-> "Other"]
    ELSE IF filename \notin DOMAIN f THEN [kind |-> "NotFound"]
    ELSE [kind |-> "Ok", data |-> f[filename]]

\* fs::write(dir.join(filename), body): creates or overwrites unconditionally.
FsWriteOk(filename, io) == io = "ok" /\ filename # <<>>
FsWrite(f, filename, body, io) ==
    IF FsWriteOk(filename, io)
    THEN [n \in DOMAIN f \cup {filename} |-> IF n = filename THEN body ELSE f[n]]
    ELSE f

\* A file handler that answers every failed read with 404.
handle_get_file_AllNotFound(req, d, f, io) ==
    LET filename == FileNameOf(req.path) IN
    IF PathParts(req.path) = <<>> THEN Panicked
    ELSE IF d = None THEN Err("Response")
    ELSE LET r == FsRead(f, filename, io) IN
         IF r.kind = "Ok"
         THEN Ok(Response("OK", Some(r.data), Some(sOctetStream)))
         ELSE Ok(Response("NotFound", None, None))

handle_get_file(req, d, f, io) ==
    LET filename == FileNameOf(req.path) IN
    IF PathParts(req.path) = <<>> THEN Panicked
    ELSE IF d = None THEN Err("Response")
    ELSE LET r == FsRead(f, filename, io) IN
         IF r.kind = "Ok"
         THEN Ok(Response("OK", Some(r.data), Some(sOctetStream)))
         ELSE IF r.kind = "NotFound"
         THEN Ok(Response("NotFound", None, None))
         ELSE Ok(Response("InternalServerError", None, None))

handle_post_file(req, d, f, io) ==
    LET filename == FileNameOf(req.path) IN
    IF PathParts(req.path) = <<>> THEN Panicked
    ELSE IF d = None THEN Err("Response")
    ELSE IF FsWriteOk(filename, io)
         THEN Ok(Response("Created", None, Some(sOctetStream)))
         ELSE Ok(Response("InternalServerError", None, None))

\* A router whose echo arm matches "/echo" without the closing slash.
RouteOfEchoNoSlash(method, path) ==
    IF method = sGET /\ path = sRoot THEN "root"
    ELSE IF method = sGET /\ StartsWith(path, pEcho) THEN "echo"
    ELSE IF method = sGET /\ path = sUserAgentPath THEN "user_agent"
    ELSE IF method = sGET /\ StartsWith(path, sFilesPrefix) THEN "get_file"
    ELSE IF method = sPOST /\ StartsWith(path, sFilesPrefix) THEN "post_file"
    ELSE "not_found"

\* A router whose file arms match "/files" without the closing slash.
RouteOfFilesNoSlash(method, path) ==
    LET files == <<"/", "f", "i", "l", "e", "s">> IN
    IF method = sGET /\ path = sRoot THEN "root"
    ELSE IF method = sGET /\ StartsWith(path, sEchoPrefix) THEN "echo"
    ELSE IF method = sGET /\ path = sUserAgentPath THEN "user_agent"
    ELSE IF method = sGET /\ StartsWith(path, files) THEN "get_file"
    ELSE IF method = sPOST /\ StartsWith(path, files) THEN "post_file"
    ELSE "not_found"

\* The router of handle_connection: which arm of the match is taken.
RouteOf(method, path) ==
    IF method = sGET /\ path = sRoot THEN "root"
    ELSE IF method = sGET /\ StartsWith(path, sEchoPrefix) THEN "echo"
    ELSE IF method = sGET /\ path = sUserAgentPath THEN "user_agent"
    ELSE IF method = sGET /\ StartsWith(path, sFilesPrefix) THEN "get_file"
    ELSE IF method = sPOST /\ StartsWith(path, sFilesPrefix) THEN "post_file"
    ELSE "not_found"

\* The value of the match in handle_connection, before the `?`.
Dispatch(req, d, f, io) ==
    LET route == RouteOf(req.method, req.path) IN
    CASE route = "root" -> handle_get_root(req)
      [] route = "echo" -> handle_get_echo(req)
      [] route = "user_agent" -> handle_get_user_agent(req)
      [] route = "get_file" -> handle_get_file(req, d, f, io)
      [] route = "post_file" -> handle_post_file(req, d, f, io)
      [] OTHER -> Ok(Response("NotFound", None, None))

\* The file system after the handler ran: only handle_post_file writes.
FsAfter(req, d, f, io) ==
    IF RouteOf(req.method, req.path) = "post_file" /\ d # None
       /\ PathParts(req.path) # <<>>
    THEN FsWrite(f, FileNameOf(req.path), req.body, io)
    ELSE f

\* write_response's status_text.
StatusText(status) ==
    CASE status = "OK" -> s200
      [] status = "Created" -> s201
      [] status = "NotFound" -> s404
      [] status = "InternalServerError" -> s500

(***************************************************************************)
(* Clients: what a client sends on its connection, as the TCP segments the *)
(* server's socket receives, and whether it then shuts its sending side    *)
(* (end of stream) or keeps the connection open waiting for the response.  *)
(***************************************************************************)
Client(segs, close) == [segs |-> segs, close |-> close]
ReqLine(m, p) == m \o <<SP>> \o p \o <<SP>> \o sHttpVersion \o CRLF
Hdr(k, v) == k \o sColonSp \o v \o CRLF

pFiles == <<"/", "f", "i", "l", "e", "s">>
pEchoABB == sEchoPrefix \o <<"a", "/", "/", "b">>
pFilesX == sFilesPrefix \o <<"x">>
pFilesXY == sFilesPrefix \o <<"x", "/", "y">>
pFilesXZ == sFilesPrefix \o <<"x", "/", "z">>
sLowerUserAgent == <<"u", "s", "e", "r", "-", "a", "g", "e", "n", "t">>
sHost == <<"H", "o", "s", "t">>
PostHead(p, name, val) == ReqLine(sPOST, p) \o Hdr(name, val) \o CRLF

\* Well-formed requests, delivered in one segment.
PlainInputs ==
    { Client(<<ReqLine(m, p) \o CRLF>>, FALSE) :
        m \in {sGET, sPOST, sDELETE},
        p \in {sRoot, pEcho, sEchoPrefix, pEchoABB, sUserAgentPath, pFiles,
               sFilesPrefix, pFilesX, pFilesXY, pFilesXZ} }

HeaderInputs ==
    { Client(<<ReqLine(sGET, sUserAgentPath) \o Hdr(sUserAgent, <<"c", "1">>)
               \o Hdr(sUserAgent, <<"c", "2">>) \o CRLF>>, FALSE),
      Client(<<ReqLine(sGET, sUserAgentPath) \o Hdr(sLowerUserAgent, <<"c", "1">>)
               \o Hdr(sUserAgent, <<"c", ":", SP, "2">>) \o CRLF>>, FALSE),
      Client(<<ReqLine(sGET, sRoot) \o <<"f", "o", "o", ":", "1">> \o CRLF
               \o Hdr(sHost, <<"h">>) \o CRLF>>, FALSE),
      Client(<<ReqLine(sGET, sRoot) \o Hdr(sHost, <<"h">>)>>, TRUE),
      Client(<<<<"G", "E", "T", SP, "/", SP, "H", "T">>,
               <<"T", "P", "/", "1", ".", "1", CR, LF, CR>>, <<LF>>>>, FALSE) }

\* Requests with data after the header block, delivered in different ways.
BodyInputs ==
    { Client(<<PostHead(pFilesX, sContentLength, <<"2">>) \o <<"a", "b">>>>, FALSE),
      Client(<<PostHead(pFilesX, sContentLength, <<"2">>), <<"a", "b">>>>, FALSE),
      Client(<<PostHead(pFilesX, sContentLength, <<"2">>) \o <<"a">>, <<"b">>>>, FALSE),
      Client(<<PostHead(pFilesXY, sContentLength, <<"1">>) \o <<"c">>>>, FALSE),
      Client(<<PostHead(pFilesX, sContentLength, <<"0">>)>>, TRUE),
      Client(<<PostHead(pFilesX, sContentLength, <<"9">>) \o <<"a">>>>, FALSE),
      Client(<<PostHead(pFilesX, sLowerContentLength, <<"2">>) \o <<"a", "b">>>>, FALSE),
      Client(<<PostHead(pFilesX, sHost, <<"h">>) \o <<"a", "b">>>>, FALSE),
      Client(<<ReqLine(sGET, pFilesX) \o CRLF \o <<"a", "b">>>>, FALSE),
      Client(<<PostHead(pFilesX, sContentLength, <<"1">>) \o <<BAD>>>>, FALSE) }

\* Malformed and truncated streams.
BadInputs ==
    { Client(<<>>, TRUE),
      Client(<<ReqLine(sGET, sRoot)>>, TRUE),
      Client(<<ReqLine(sGET, sRoot)>>, FALSE),
      Client(<<ReqLine(sPOST, pFilesX) \o Hdr(sContentLength, <<"2">>)>>, TRUE),
      Client(<<sGET \o <<SP>> \o sRoot \o CRLF \o CRLF>>, FALSE),
      Client(<<sGET \o <<SP, SP>> \o sRoot \o <<SP>> \o sHttpVersion \o CRLF
               \o CRLF>>, FALSE),
      Client(<<ReqLine(sGET, sRoot) \o <<"x">> \o CRLF>>, FALSE),
      Client(<<CRLF>>, FALSE),
      Client(<<sGET \o <<SP>> \o sRoot \o <<SP>> \o sHttpVersion \o <<LF>>
               \o CRLF>>, FALSE),
      Client(<<ReqLine(sGET, sRoot) \o <<LF>>>>, FALSE),
      Client(<<sGET \o <<SP>> \o sRoot \o <<SP>> \o sHttpVersion>>, TRUE),
      Client(<<ReqLine(sGET, sRoot) \o <<"h", ":", SP, BAD>> \o CRLF \o CRLF>>,
             FALSE) }

\* Two requests on one connection, as a keep-alive client sends them.
PipelinedInputs ==
    { Client(<<ReqLine(sGET, sRoot) \o CRLF \o ReqLine(sGET, pEchoABB) \o CRLF>>,
             FALSE),
      Client(<<ReqLine(sGET, sRoot) \o CRLF, ReqLine(sGET, pEchoABB) \o CRLF>>,
             TRUE) }

\* The clients of the specification in which connections follow one another.
SeqInputs ==
    PlainInputs \cup HeaderInputs \cup BodyInputs \cup BadInputs
    \cup PipelinedInputs

\* The clients of the specification in which connections overlap.
ConcInputs ==
    { Client(<<ReqLine(sGET, sEchoPrefix \o <<"a">>) \o Hdr(sContentLength, <<"1">>)
               \o CRLF \o <<"b">>>>, FALSE),
      Client(<<sGET \o <<SP>> \o sRoot \o CRLF \o CRLF>>, FALSE),
      Client(<<ReqLine(sGET, sRoot) \o <<LF>>>>, TRUE),
      Client(<<ReqLine(sGET, sRoot)>>, FALSE) }

(***************************************************************************)
(* State.                                                                  *)
(*   conn[c]   the c-th connection: its client, its socket and the locals  *)
(*             of the thread that handles it (see IdleConn)                *)
(*   fs        the files of the configured directory                       *)
(*   dir       the --directory argument: None or Some                      *)
(*   listener  the acceptor loop of main                                   *)
(*   sentBody  history: per file last written by a POST that carried a     *)
(*             Content-Length header, the data its client sent after the   *)
(*             header block                                                *)
(***************************************************************************)
VARIABLES conn, fs, dir, listener, sentBody

vars == <<conn, fs, dir, listener, sentBody>>

Conns == 1..MaxConn

\* A connection that was not accepted yet.
\*   pc             where its thread is
\*   client         what its client does
\*   sent, eof      segments delivered so far; end of stream delivered
\*   sock           bytes in the socket's receive buffer, not yet read
\*   reader         BufReader: bytes read from the socket, not yet consumed
\*   buf            read_until's buf: the line read so far
\*   req, is_first_line, has_body     locals of read_request
\*   res            the Response of the handler, None before
\*   wire           bytes written to the socket
\*   hdr_end        history: the blank line was read (line 190)
\*   body_read      history: the body-read step ran (line 237)
\*   consumed       history: bytes consumed from the reader
IdleConn ==
    [pc |-> "idle", client |-> Client(<<>>, FALSE), sent |-> 0, eof |-> FALSE,
     sock |-> <<>>, reader |-> <<>>, buf |-> <<>>, req |-> EmptyRequest,
     is_first_line |-> TRUE, has_body |-> FALSE, res |-> None, wire |-> <<>>,
     hdr_end |-> FALSE, body_read |-> FALSE, consumed |-> 0]

\* The thread has ended and the stream was dropped: the connection is closed.
ClosedConn == [IdleConn EXCEPT !.pc = "closed"]

ReadPcs == {"reading", "body"}
WritePcs == {"w_status", "w_ctype", "w_clen", "w_blank", "w_body"}
EndPcs == {"done", "error", "panicked"}
LivePcs == {"spawned", "route"} \cup ReadPcs \cup WritePcs

\* A build with panic = "abort": any panic ends the whole process.
PanicStrategyAbort == TRUE

\* The build's panic strategy: the default (unwind) ends only the thread that
\* panicked; the process and its other threads go on.
PanicAbortsProcess == FALSE

Init ==
    /\ conn = [c \in Conns |-> IdleConn]
    /\ dir \in {None, Some(<<"d">>)}
    /\ fs \in {[n \in {} |-> <<>>], [n \in {<<"x">>} |-> <<"z">>]}
    /\ listener = "listening"
    /\ sentBody = [n \in {} |-> <<>>]

\* conn' when the thread of connection c moves to record r.
Upd(c, r) ==
    IF r.pc = "panicked" /\ PanicAbortsProcess
    THEN /\ conn' = [d \in Conns |->
                        IF d = c THEN r
                        ELSE IF conn[d].pc \in LivePcs
                        THEN [conn[d] EXCEPT !.pc = "panicked"]
                        ELSE conn[d]]
         /\ listener' = "aborted"
    ELSE /\ conn' = [conn EXCEPT ![c] = r]
         /\ listener' = listener

(***************************************************************************)
(* main: the acceptor loop.                                                *)
(***************************************************************************)
\* A server that handles each connection on the acceptor's own thread: it
\* accepts the next one only when no connection is being handled.
DoAcceptInline(c, client) ==
    /\ listener = "listening"
    /\ conn[c].pc = "idle"
    /\ \A d \in Conns : conn[d].pc \in {"idle", "closed"}
    /\ conn' = [conn EXCEPT ![c] = [IdleConn EXCEPT !.pc = "spawned",
                                                    !.client = client]]
    /\ UNCHANGED <<fs, dir, listener, sentBody>>

\* listener.incoming() yields connection c; a thread is spawned for it.
DoAccept(c, client) ==
    /\ listener = "listening"
    /\ conn[c].pc = "idle"
    /\ conn' = [conn EXCEPT ![c] = [IdleConn EXCEPT !.pc = "spawned",
                                                    !.client = client]]
    /\ UNCHANGED <<fs, dir, listener, sentBody>>

\* Clients connect one after another: each once the previous connection closed.
Accept(c) ==
    /\ IF c = 1 THEN TRUE ELSE conn[c - 1].pc = "closed"
    /\ \E client \in SeqInputs : DoAccept(c, client)

\* Clients connect while earlier connections are still being handled.
AcceptConcurrent(c) ==
    /\ IF c = 1 THEN TRUE ELSE conn[c - 1].pc # "idle"
    /\ \E client \in ConcInputs : DoAccept(c, client)

(***************************************************************************)
(* The network.                                                            *)
(***************************************************************************)
\* The next segment of the client arrives.  The thread looks at the socket
\* only while it reads: an arrival before its first read is an arrival at
\* "reading", arrivals after its last read are never looked at.
Deliver(c) ==
    LET r == conn[c] IN
    /\ r.pc \in ReadPcs
    /\ r.sent < Len(r.client.segs)
    /\ conn' = [conn EXCEPT ![c] = [r EXCEPT !.sent = r.sent + 1,
                                   !.sock = r.sock \o r.client.segs[r.sent + 1]]]
    /\ UNCHANGED <<fs, dir, listener, sentBody>>

\* The client shuts its sending side after its last segment.
ClientClose(c) ==
    LET r == conn[c] IN
    /\ r.pc \in ReadPcs
    /\ r.sent = Len(r.client.segs)
    /\ r.client.close
    /\ ~r.eof
    /\ conn' = [conn EXCEPT ![c] = [r EXCEPT !.eof = TRUE]]
    /\ UNCHANGED <<fs, dir, listener, sentBody>>

(***************************************************************************)
(* The thread of a connection: handle_connection.                          *)
(***************************************************************************)
\* The closure starts: stream.peer_addr().unwrap() succeeds.
ThreadStart(c) ==
    /\ conn[c].pc = "spawned"
    /\ Upd(c, [conn[c] EXCEPT !.pc = "reading"])
    /\ UNCHANGED <<fs, dir, sentBody>>

\* stream.peer_addr() fails (the peer is already gone): unwrap panics.
ThreadStartPanic(c) ==
    /\ conn[c].pc = "spawned"
    /\ Upd(c, [conn[c] EXCEPT !.pc = "panicked"])
    /\ UNCHANGED <<fs, dir, sentBody>>

\* A header-name comparison that ignores case.
IsContentLengthAnyCase(key) == key \in {sContentLength, sLowerContentLength}

\* Line 221: key == "Content-Length".
IsContentLength(key) == key = sContentLength

\* After the loop of read_request (line 237): the body step, or Ok(req).
AfterLoop(r) == [r EXCEPT !.pc = IF r.has_body THEN "body" ELSE "route"]

\* The body of read_request's loop once read_until returned line (lines
\* 180-229), on the connection record r.
ProcessLine(r, line) ==
    LET stripped == StripSuffixCRLF(line)
        parts == Split(stripped[1], SP)
        kv == SplitOnce(stripped[1])
    IN
    IF Len(line) = 0 THEN AfterLoop(r)
    ELSE IF ~IsUtf8(line) THEN [r EXCEPT !.pc = "error"]
    ELSE IF line = CRLF THEN AfterLoop([r EXCEPT !.hdr_end = TRUE])
    ELSE IF stripped = None THEN [r EXCEPT !.pc = "error"]
    ELSE IF r.is_first_line
    THEN IF Len(parts) # 3
         THEN [r EXCEPT !.pc = "panicked", !.is_first_line = FALSE]
         ELSE [r EXCEPT !.is_first_line = FALSE,
                        !.req.method = parts[1],
                        !.req.path = parts[2],
                        !.req.http_info = parts[3]]
    ELSE IF kv # None
    THEN [r EXCEPT !.has_body = r.has_body \/ IsContentLength(kv[1][1]),
                   !.req.headers = Append(r.req.headers, kv[1])]
    ELSE r

\* BufReader::fill_buf: the buffered bytes, or when there are none the result
\* of one read of the socket (which blocks until data or end of stream).
CanFill(r) == r.reader # <<>> \/ r.sock # <<>> \/ r.eof
Filled(r) ==
    IF r.reader # <<>> THEN r
    ELSE [r EXCEPT !.reader = r.sock, !.sock = <<>>]

\* One turn of the loop inside reader.read_until(b'\n', &mut buf); when it
\* returns, the rest of the turn of read_request's loop.
ReadUntilStep(r) ==
    LET f == Filled(r)
        i == IndexOf(f.reader, LF)
    IN
    IF f.reader = <<>>
    THEN ProcessLine([f EXCEPT !.buf = <<>>], f.buf)
    ELSE IF i > 0
    THEN ProcessLine([f EXCEPT !.buf = <<>>,
                               !.reader = SubSeq(f.reader, i + 1, Len(f.reader)),
                               !.consumed = f.consumed + i],
                     f.buf \o SubSeq(f.reader, 1, i))
    ELSE [f EXCEPT !.buf = f.buf \o f.reader,
                   !.reader = <<>>,
                   !.consumed = f.consumed + Len(f.reader)]

ReadUntil(c) ==
    /\ conn[c].pc = "reading"
    /\ CanFill(conn[c])
    /\ Upd(c, ReadUntilStep(conn[c]))
    /\ UNCHANGED <<fs, dir, sentBody>>

\* Lines 237-246: the body is whatever fill_buf returns.
ReadBodyStep(r) ==
    LET f == Filled(r)
        received == f.reader
    IN
    IF ~IsUtf8(received)
    THEN [f EXCEPT !.pc = "error", !.reader = <<>>, !.body_read = TRUE,
                   !.consumed = f.consumed + Len(received)]
    ELSE [f EXCEPT !.pc = "route", !.reader = <<>>, !.body_read = TRUE,
                   !.consumed = f.consumed + Len(received),
                   !.req.body = received]

ReadBody(c) ==
    /\ conn[c].pc = "body"
    /\ CanFill(conn[c])
    /\ Upd(c, ReadBodyStep(conn[c]))
    /\ UNCHANGED <<fs, dir, sentBody>>

\* A read of the socket fails (the peer reset the connection):
\* read_request returns Err.
ReadFail(c) ==
    /\ conn[c].pc \in ReadPcs
    /\ conn[c].reader = <<>>
    /\ Upd(c, [conn[c] EXCEPT !.pc = "error"])
    /\ UNCHANGED <<fs, dir, sentBody>>

\* What the client of r sends after its header block (after the first line
\* that is exactly CRLF).
RECURSIVE AfterHeaderBlock(_)
AfterHeaderBlock(s) ==
    LET i == IndexOf(s, LF) IN
    IF i = 0 THEN <<>>
    ELSE IF SubSeq(s, 1, i) = CRLF THEN SubSeq(s, i + 1, Len(s))
    ELSE AfterHeaderBlock(SubSeq(s, i + 1, Len(s)))

RECURSIVE Flatten(_)
Flatten(segs) == IF segs = <<>> THEN <<>> ELSE Head(segs) \o Flatten(Tail(segs))

ClientBody(client) == AfterHeaderBlock(Flatten(client.segs))

\* Lines 124-136: the router and the handler it picks.
RouteStep(r, d, f, io) ==
    LET out == Dispatch(r.req, d, f, io) IN
    IF out.ok THEN [r EXCEPT !.pc = "w_status", !.res = Some(out.res)]
    ELSE IF out.err = "panic" THEN [r EXCEPT !.pc = "panicked"]
    ELSE [r EXCEPT !.pc = "error"]

Route(c) ==
    /\ conn[c].pc = "route"
    /\ \E io \in {"ok", "fail"} :
         LET r == conn[c]
             out == Dispatch(r.req, dir, fs, io)
             name == FileNameOf(r.req.path)
         IN
         /\ Upd(c, RouteStep(r, dir, fs, io))
         /\ fs' = FsAfter(r.req, dir, fs, io)
         /\ sentBody' =
               IF out.ok /\ out.res.status = "Created"
               THEN IF get_header(r.req, sContentLength) # None
                    THEN [n \in DOMAIN sentBody \cup {name} |->
                            IF n = name THEN ClientBody(r.client) ELSE sentBody[n]]
                    ELSE [n \in DOMAIN sentBody \ {name} |-> sentBody[n]]
               ELSE sentBody
    /\ UNCHANGED dir

(***************************************************************************)
(* write_response: one action per write on the stream.  The stream is an   *)
(* unbuffered TcpStream: what a write accepts is on the wire.              *)
(***************************************************************************)
\* Some(body), Some(content_type) of the match at line 272.
HasHeaders(res) == res.body # None /\ res.content_type # None

\* Line 269.
WriteStatus(c) ==
    LET r == conn[c] IN
    /\ r.pc = "w_status"
    /\ Upd(c, [r EXCEPT
                 !.wire = r.wire \o sHttpPrefix \o StatusText(r.res[1].status) \o CRLF,
                 !.pc = IF HasHeaders(r.res[1]) THEN "w_ctype" ELSE "w_blank"])
    /\ UNCHANGED <<fs, dir, sentBody>>

\* Line 274.
WriteContentType(c) ==
    LET r == conn[c] IN
    /\ r.pc = "w_ctype"
    /\ Upd(c, [r EXCEPT
                 !.wire = r.wire \o sContentTypeHdr \o r.res[1].content_type[1] \o <<LF>>,
                 !.pc = "w_clen"])
    /\ UNCHANGED <<fs, dir, sentBody>>

\* Line 278.
WriteContentLength(c) ==
    LET r == conn[c] IN
    /\ r.pc = "w_clen"
    /\ Upd(c, [r EXCEPT
                 !.wire = r.wire \o sContentLengthHdr
                          \o Decimal(Len(r.res[1].body[1])) \o <<LF>>,
                 !.pc = "w_blank"])
    /\ UNCHANGED <<fs, dir, sentBody>>

\* Line 288; without a body the flush follows (a no-op on a TcpStream) and
\* write_response returns Ok.
WriteBlank(c) ==
    LET r == conn[c] IN
    /\ r.pc = "w_blank"
    /\ Upd(c, [r EXCEPT !.wire = r.wire \o CRLF,
                        !.pc = IF r.res[1].body # None THEN "w_body" ELSE "done"])
    /\ UNCHANGED <<fs, dir, sentBody>>

\* The numbers of bytes one stream.write(&body) may accept: Write::write
\* returns after a single attempt, which may take only a part of the buffer.
WriteAccepts(body) == IF body = <<>> THEN {0} ELSE 1..Len(body)

\* Lines 291-302: a single write of the body, its count ignored, the flush
\* (a no-op on a TcpStream), Ok.
WriteBody(c) ==
    LET r == conn[c] IN
    /\ r.pc = "w_body"
    /\ \E n \in WriteAccepts(r.res[1].body[1]) :
         Upd(c, [r EXCEPT !.wire = r.wire \o SubSeq(r.res[1].body[1], 1, n),
                          !.pc = "done"])
    /\ UNCHANGED <<fs, dir, sentBody>>

\* A write on the socket fails (the peer reset the connection): the map_err
\* and `?` of that write return Err, what was written before stays written.
WriteFail(c) ==
    /\ conn[c].pc \in WritePcs
    /\ Upd(c, [conn[c] EXCEPT !.pc = "error"])
    /\ UNCHANGED <<fs, dir, sentBody>>

\* A server with keep-alive: after a response the thread reads the next
\* request from the same stream.
CloseKeepAlive(c) ==
    /\ conn[c].pc \in EndPcs
    /\ conn' = [conn EXCEPT ![c] =
                  IF conn[c].pc = "done"
                  THEN [conn[c] EXCEPT !.pc = "reading", !.req = EmptyRequest,
                                       !.is_first_line = TRUE, !.has_body = FALSE,
                                       !.res = None, !.hdr_end = FALSE,
                                       !.body_read = FALSE]
                  ELSE ClosedConn]
    /\ UNCHANGED <<fs, dir, listener, sentBody>>

\* The closure returns (or unwinds): the stream is dropped, the connection
\* closed, the thread gone.
Close(c) ==
    /\ conn[c].pc \in EndPcs
    /\ conn' = [conn EXCEPT ![c] = ClosedConn]
    /\ UNCHANGED <<fs, dir, listener, sentBody>>

(***************************************************************************)
(* Specifications.                                                         *)
(***************************************************************************)
ThreadStep(c) ==
    \/ ThreadStart(c)
    \/ ThreadStartPanic(c)
    \/ ReadUntil(c)
    \/ ReadBody(c)
    \/ ReadFail(c)
    \/ Route(c)
    \/ WriteStatus(c)
    \/ WriteContentType(c)
    \/ WriteContentLength(c)
    \/ WriteBlank(c)
    \/ WriteBody(c)
    \/ WriteFail(c)
    \/ Close(c)

Next ==
    \E c \in Conns :
        \/ Accept(c)
        \/ Deliver(c)
        \/ ClientClose(c)
        \/ ThreadStep(c)

\* Connections one after another, every kind of client.
Spec == Init /\ [][Next]_vars

NextConcurrent ==
    \E c \in Conns :
        \/ AcceptConcurrent(c)
        \/ Deliver(c)
        \/ ClientClose(c)
        \/ ThreadStep(c)

\* Overlapping connections, of clients that ask for no file: the server runs
\* without --directory.
InitConcurrent == Init /\ dir = None /\ fs = [n \in {} |-> <<>>]

SpecConcurrent == InitConcurrent /\ [][NextConcurrent]_vars

\* The steps of connection c that scheduling and the network guarantee: its
\* thread runs when it can, what its client sent arrives.  The failures
\* (ThreadStartPanic, ReadFail, WriteFail) may happen and need not.
FairStep(c) ==
    \/ ThreadStart(c)
    \/ ReadUntil(c)
    \/ ReadBody(c)
    \/ Route(c)
    \/ WriteStatus(c)
    \/ WriteContentType(c)
    \/ WriteContentLength(c)
    \/ WriteBlank(c)
    \/ WriteBody(c)
    \/ Close(c)
    \/ Deliver(c)
    \/ ClientClose(c)

\* ENABLED <<FairStep(c)>>_vars as a state predicate: the disjunction of the
\* guards of the actions of FairStep(c), each of which changes conn[c].
FairStepEnabled(c) ==
    LET r == conn[c] IN
    \/ r.pc \in {"spawned", "route"} \cup WritePcs \cup EndPcs
    \/ /\ r.pc \in ReadPcs
       /\ \/ CanFill(r)
          \/ r.sent < Len(r.client.segs)
          \/ r.client.close /\ ~r.eof

\* Weak fairness of FairStep(c), WF_vars(FairStep(c)), written out with the
\* enabling condition as the state predicate above.
WeakFairStep(c) ==
    \/ []<>(~FairStepEnabled(c))
    \/ []<><<FairStep(c)>>_vars

\* Overlapping connections under a fair scheduler and a network that
\* delivers.  Nothing makes a client connect.
FairSpecConcurrent == SpecConcurrent /\ \A c \in Conns : WeakFairStep(c)

(***************************************************************************)
(* What the claims speak of.                                               *)
(***************************************************************************)
\* The bytes of a complete response as the serializer contract gives them.
WireFormat(res) ==
    sHttpPrefix
    \o (CASE res.status = "OK" -> s200
          [] res.status = "Created" -> s201
          [] res.status = "NotFound" -> s404
          [] res.status = "InternalServerError" -> s500)
    \o CRLF
    \o (IF res.body # None
        THEN sContentTypeHdr \o UnwrapOr(res.content_type, <<>>) \o <<LF>>
             \o sContentLengthHdr \o Decimal(Len(res.body[1])) \o <<LF>>
        ELSE <<>>)
    \o CRLF
    \o UnwrapOr(res.body, <<>>)

\* The length of the client's stream up to and including the blank line (the
\* whole stream when it has no blank line).
HeaderBlockLen(client) == Len(Flatten(client.segs)) - Len(ClientBody(client))

\* The request of connection c names a header exactly "Content-Length".
SawContentLength(c) ==
    \E i \in 1..Len(conn[c].req.headers) :
        conn[c].req.headers[i][1] = sContentLength

\* The thread of c got past read_request with Ok(req).
Routed(c) == conn[c].pc \in WritePcs \cup {"done"} \/ conn[c].res # None

\* The routing table of the specification.
TableRoute(method, path) ==
    CASE method = sGET /\ path = sRoot -> "root"
      [] method = sGET /\ StartsWith(path, sEchoPrefix) -> "echo"
      [] method = sGET /\ path = sUserAgentPath -> "user_agent"
      [] method = sGET /\ StartsWith(path, sFilesPrefix) -> "get_file"
      [] method = sPOST /\ StartsWith(path, sFilesPrefix) -> "post_file"
      [] OTHER -> "not_found"

(***************************************************************************)
(* C1: with no base directory configured, a GET /files/<name> request is   *)
(* answered with a 500 Internal Server Error response written to the       *)
(* client, and the server keeps accepting.                                 *)
(* Stated for a connection whose thread has ended after reading a complete *)
(* request without a body.                                                 *)
(***************************************************************************)
C1_NoDirGetFileAnswers500 ==
    \A c \in Conns :
        ( /\ dir = None
          /\ conn[c].pc \in EndPcs
          /\ conn[c].hdr_end
          /\ ~conn[c].has_body
          /\ TableRoute(conn[c].req.method, conn[c].req.path) = "get_file" )
        => /\ StartsWith(conn[c].wire, sHttpPrefix \o s500 \o CRLF)
           /\ listener = "listening"

(***************************************************************************)
(* C2: round trip.  After a POST /files/x with a Content-Length header and *)
(* body B was answered 201, a later GET /files/x (no other write in        *)
(* between, no I/O failure) gets status 200, application/octet-stream and  *)
(* body exactly B, however the client delivered B.                         *)
(***************************************************************************)
C2_PostThenGetRoundTrip ==
    \A c \in Conns :
        ( /\ conn[c].res # None
          /\ TableRoute(conn[c].req.method, conn[c].req.path) = "get_file"
          /\ FileNameOf(conn[c].req.path) \in DOMAIN sentBody
          /\ conn[c].res[1].status # "InternalServerError" )
        => conn[c].res[1] =
             Response("OK", Some(sentBody[FileNameOf(conn[c].req.path)]),
                      Some(sOctetStream))

(***************************************************************************)
(* C3: within a connection no byte of the response is written before the   *)
(* full request was read: the header block and, when a Content-Length      *)
(* header was seen, the whole body the client sends.                       *)
(***************************************************************************)
C3_ResponseOnlyAfterFullRequest ==
    \A c \in Conns :
        conn[c].wire # <<>>
        => /\ conn[c].consumed >= HeaderBlockLen(conn[c].client)
           /\ conn[c].has_body => conn[c].req.body = ClientBody(conn[c].client)

(***************************************************************************)
(* C4: no partial response: when the thread of a connection has ended,     *)
(* either the complete serialized response is on the wire or nothing is.   *)
(***************************************************************************)
C4_NoPartialResponse ==
    \A c \in Conns :
        (conn[c].pc \in EndPcs /\ conn[c].res # None)
        => \/ conn[c].wire = <<>>
           \/ conn[c].wire = WireFormat(conn[c].res[1])

(***************************************************************************)
(* C5: when write_response returns Ok, the bytes written are exactly the   *)
(* status line, the Content-Type and Content-Length lines (LF-terminated)  *)
(* iff a body is present, the blank CRLF line, and the body bytes.         *)
(***************************************************************************)
C5_WrittenBytesAreWireFormat ==
    \A c \in Conns :
        conn[c].pc = "done" => conn[c].wire = WireFormat(conn[c].res[1])

\* Up to the body the bytes are the contract's: the status line, the header
\* lines iff a body is present, the blank line; only the single write of the
\* body can fall short.
WrittenUpToBodyIsWireFormat ==
    \A c \in Conns :
        /\ conn[c].pc = "w_body"
             => conn[c].wire \o conn[c].res[1].body[1] = WireFormat(conn[c].res[1])
        /\ (conn[c].pc = "done" /\ Len(UnwrapOr(conn[c].res[1].body, <<>>)) <= 1)
             => conn[c].wire = WireFormat(conn[c].res[1])

(***************************************************************************)
(* C6: every Response a handler produces has content_type set if and only  *)
(* if body is set.                                                         *)
(***************************************************************************)
C6_ContentTypeIffBody ==
    \A c \in Conns :
        conn[c].res # None
        => (conn[c].res[1].content_type # None <=> conn[c].res[1].body # None)

\* The response of every routed connection is the one the table gives.
C7_ResponseFollowsTable ==
    \A c \in Conns :
        conn[c].res # None =>
        LET req == conn[c].req
            res == conn[c].res[1]
            k == TableRoute(req.method, req.path)
        IN
        /\ k = "root" => res = Response("OK", None, None)
        /\ k = "echo" =>
             res = Response("OK",
                            Some(SubSeq(req.path, Len(sEchoPrefix) + 1, Len(req.path))),
                            Some(sTextPlain))
        /\ k = "user_agent" =>
             res = Response("OK", Some(UnwrapOr(get_header(req, sUserAgent), <<>>)),
                            Some(sTextPlain))
        /\ k = "get_file" =>
             /\ res.status \in {"OK", "NotFound", "InternalServerError"}
             /\ res.status = "OK" => res.content_type = Some(sOctetStream)
        /\ k = "post_file" =>
             /\ res.status \in {"Created", "InternalServerError"}
             /\ res.body = None
        /\ k = "not_found" => res = Response("NotFound", None, None)

\* The step that routes a pair the table does not name.
C7_FallbackStep ==
    \A c \in Conns :
        ( /\ conn[c].pc = "route"
          /\ conn'[c].pc # "route"
          /\ TableRoute(conn[c].req.method, conn[c].req.path) = "not_found" )
        => /\ fs' = fs
           /\ conn'[c].pc = "w_status"
           /\ conn'[c].res = Some(Response("NotFound", None, None))

(***************************************************************************)
(* C7: routing is a function of (method, path) alone, by the table of the  *)
(* specification; every pair the table does not name gets a 404 without    *)
(* body and content type, and its request touches no file.                 *)
(***************************************************************************)
C7_RoutingTable == []C7_ResponseFollowsTable /\ [][C7_FallbackStep]_vars

\* A DELETE / was answered with the bare 404.
C7_Witness ==
    \E c \in Conns :
        /\ conn[c].pc = "done"
        /\ conn[c].req.method = sDELETE
        /\ conn[c].req.path = sRoot
        /\ conn[c].wire = sHttpPrefix \o s404 \o CRLF \o CRLF

(***************************************************************************)
(* C8: the body-read step runs if and only if a header named exactly       *)
(* "Content-Length" was seen, whatever its value; without one the body     *)
(* stays empty and nothing after the blank line is consumed, even when the *)
(* client sent data there.                                                 *)
(***************************************************************************)
C8_BodyReadIffContentLength ==
    \A c \in Conns :
        /\ conn[c].body_read => SawContentLength(c)
        /\ conn[c].pc = "body" => SawContentLength(c)
        /\ ~SawContentLength(c) =>
             /\ conn[c].req.body = <<>>
             /\ conn[c].consumed <= HeaderBlockLen(conn[c].client)
        /\ (Routed(c) /\ SawContentLength(c)) => conn[c].body_read

\* A POST without the header, with data after the blank line, was answered
\* and its data was left unread.
C8_Witness ==
    \E c \in Conns :
        /\ conn[c].pc = "done"
        /\ conn[c].req.method = sPOST
        /\ ~SawContentLength(c)
        /\ ClientBody(conn[c].client) # <<>>
        /\ ~conn[c].body_read
        /\ conn[c].req.body = <<>>

\* The thread of c waits for bytes its client will never send.
StalledOnClient(c) ==
    /\ conn[c].pc \in ReadPcs
    /\ ~CanFill(conn[c])
    /\ conn[c].sent = Len(conn[c].client.segs)
    /\ ~conn[c].client.close

\* A step in which the thread of c fails changes no other connection.
C9_FailureStep ==
    \A c \in Conns :
        (conn[c].pc \in LivePcs /\ conn'[c].pc \in {"error", "panicked"})
        => \A d \in Conns \ {c} : conn'[d] = conn[d]

(***************************************************************************)
(* C9: a failure on one connection (a socket error, bad UTF-8, a line      *)
(* without CRLF, a panic on the request line) ends only that connection:   *)
(* the acceptor keeps listening, the step that fails leaves every other    *)
(* connection as it is, and every other connection is handled until its    *)
(* thread ends (unless its own client stops sending).                      *)
(***************************************************************************)
C9_FailureIsolated ==
    /\ [](listener = "listening")
    /\ [][C9_FailureStep]_vars
    /\ \A c \in Conns :
         (conn[c].pc \in LivePcs)
           ~> (conn[c].pc \in EndPcs \cup {"closed"} \/ StalledOnClient(c))

\* The first connection panicked on its request line; the second one, still
\* open beside it, got its whole response.
C9_Witness ==
    /\ conn[1].pc = "panicked"
    /\ ~conn[1].is_first_line
    /\ conn[2].pc = "done"
    /\ conn[2].wire = WireFormat(conn[2].res[1])
    /\ listener = "listening"

(***************************************************************************)
(* C10: no handler and no fallback response runs on a partially parsed     *)
(* request: a connection is dispatched only after its request line was     *)
(* parsed and the blank line that ends the header block was read.          *)
(***************************************************************************)
C10_DispatchOnlyAfterFullParse ==
    \A c \in Conns :
        Routed(c) => (~conn[c].is_first_line /\ conn[c].hdr_end)

\* p is a prefix of s.
IsPrefix(p, s) == Len(p) <= Len(s) /\ SubSeq(s, 1, Len(p)) = p

\* What is on the wire of a connection is the beginning of its one response.
C11_OneResponse ==
    \A c \in Conns :
        IF conn[c].res = None THEN conn[c].wire = <<>>
        ELSE IsPrefix(conn[c].wire, WireFormat(conn[c].res[1]))

\* A step as connection c sees it: reading comes first and never again, the
\* request and the response are set once, the wire only grows, and a thread
\* that has ended does nothing but close its connection, for good.
C11_ConnStep ==
    \A c \in Conns :
        LET r == conn[c]
            q == conn'[c]
        IN
        /\ q.pc \in ReadPcs => r.pc \in ReadPcs \cup {"spawned"}
        /\ (r.pc \notin ReadPcs /\ q.pc # "closed")
             => /\ q.req = r.req
                /\ q.reader = r.reader
                /\ q.sock = r.sock
                /\ q.consumed = r.consumed
        /\ (r.res # None /\ q.pc # "closed") => q.res = r.res
        /\ q.pc # "closed" => IsPrefix(r.wire, q.wire)
        /\ r.pc \in EndPcs => (q = r \/ q = ClosedConn)
        /\ r.pc = "closed" => q = r

(***************************************************************************)
(* C11: on every connection at most one request is read and at most one    *)
(* response is written, and when the handler has finished, with a response *)
(* or with an error, the connection is closed and stays closed; a second   *)
(* request the client sent on it is never parsed.                          *)
(***************************************************************************)
C11_OneRequestOneResponse == []C11_OneResponse /\ [][C11_ConnStep]_vars

\* The client sent two requests at once; the first was answered, the second
\* lies unread in the buffer of the thread that has finished.
C11_Witness ==
    \E c \in Conns :
        /\ conn[c].pc = "done"
        /\ conn[c].req.path = sRoot
        /\ conn[c].reader = ReqLine(sGET, pEchoABB) \o CRLF
        /\ conn[c].wire = sHttpPrefix \o s200 \o CRLF \o CRLF

\* The step that handles a GET /files/<name> with a directory configured.
C12_GetFileStep ==
    \A c \in Conns :
        ( /\ conn[c].pc = "route"
          /\ conn'[c].pc # "route"
          /\ dir # None
          /\ TableRoute(conn[c].req.method, conn[c].req.path) = "get_file" )
        => LET name == FileNameOf(conn[c].req.path)
               res == conn'[c].res[1]
           IN
           /\ fs' = fs
           /\ conn'[c].pc = "w_status"
           /\ conn'[c].res # None
           /\ \/ /\ name \in DOMAIN fs
                 /\ res = Response("OK", Some(fs[name]), Some(sOctetStream))
              \/ /\ name \notin DOMAIN fs
                 /\ res = Response("NotFound", None, None)
              \/ res = Response("InternalServerError", None, None)

(***************************************************************************)
(* C12: with a base directory configured, the step that handles a GET      *)
(* /files/<name> always produces a response and leaves the files as they   *)
(* are; the response is 200, application/octet-stream, with the bytes of   *)
(* the file as body when the read succeeds, 404 without body and content   *)
(* type only when the file does not exist, and 500 without body for any    *)
(* other failure of the read.                                              *)
(***************************************************************************)
C12_GetFileOutcome == [][C12_GetFileStep]_vars

\* GET /files/x/y in a directory that holds the file x: 200 with its bytes.
C12_Witness ==
    \E c \in Conns :
        /\ dir # None
        /\ <<"x">> \in DOMAIN fs
        /\ conn[c].pc = "w_status"
        /\ conn[c].req.method = sGET
        /\ conn[c].req.path = pFilesXY
        /\ conn[c].res = Some(Response("OK", Some(fs[<<"x">>]), Some(sOctetStream)))

\* The (name, value) pairs of the CRLF-terminated lines of s up to its blank
\* line, in the order of the lines: a line with ": " gives the pair around
\* its first ": ", a line without gives none.
RECURSIVE HeadersOf(_)
HeadersOf(s) ==
    LET i == IndexOf(s, LF)
        line == SubSeq(s, 1, i - 2)
    IN
    IF i = 0 \/ SubSeq(s, 1, i) = CRLF THEN <<>>
    ELSE (IF SplitOnce(line) = None THEN <<>> ELSE SplitOnce(line))
         \o HeadersOf(SubSeq(s, i + 1, Len(s)))

\* What the client sends after its request line.
AfterRequestLine(client) ==
    LET s == Flatten(client.segs) IN SubSeq(s, IndexOf(s, LF) + 1, Len(s))

\* The value of the first pair of hs named key, the empty string without one.
RECURSIVE FirstValue(_, _)
FirstValue(hs, key) ==
    IF hs = <<>> THEN <<>>
    ELSE IF Head(hs)[1] = key THEN Head(hs)[2]
    ELSE FirstValue(Tail(hs), key)

\* Once the blank line was read the headers are the client's, in its order,
\* duplicates included; the response to GET /user-agent carries the value of
\* the first one named exactly User-Agent, and with an empty value the
\* header Content-Length: 0.
C13_HeadersAndUserAgent ==
    \A c \in Conns :
        LET r == conn[c] IN
        /\ (r.hdr_end /\ ~r.is_first_line)
             => r.req.headers = HeadersOf(AfterRequestLine(r.client))
        /\ (r.res # None /\ TableRoute(r.req.method, r.req.path) = "user_agent")
             => /\ r.res[1] = Response("OK", Some(FirstValue(r.req.headers, sUserAgent)),
                                       Some(sTextPlain))
                /\ (r.pc = "done" /\ FirstValue(r.req.headers, sUserAgent) = <<>>)
                     => r.wire = sHttpPrefix \o s200 \o CRLF
                                 \o sContentTypeHdr \o sTextPlain \o <<LF>>
                                 \o sContentLengthHdr \o <<"0", LF>> \o CRLF

\* The header list of a connection only grows, one pair at its end at a time.
C13_HeadersStep ==
    \A c \in Conns :
        conn'[c].pc # "closed"
        => \/ conn'[c].req.headers = conn[c].req.headers
           \/ /\ Len(conn'[c].req.headers) = Len(conn[c].req.headers) + 1
              /\ IsPrefix(conn[c].req.headers, conn'[c].req.headers)

(***************************************************************************)
(* C13: headers are kept in arrival order with duplicates preserved, and   *)
(* get_header returns the value of the first header whose name equals the  *)
(* key exactly, or nothing; so GET /user-agent returns 200, text/plain,    *)
(* with the first User-Agent header's value as body, or an empty body      *)
(* (Content-Length: 0) when no header is named exactly "User-Agent".       *)
(***************************************************************************)
C13_FirstHeaderWins == []C13_HeadersAndUserAgent /\ [][C13_HeadersStep]_vars

\* Two User-Agent headers were sent: both are kept, the first is echoed.
C13_Witness ==
    \E c \in Conns :
        /\ conn[c].pc = "w_status"
        /\ conn[c].req.path = sUserAgentPath
        /\ conn[c].req.headers = << <<sUserAgent, <<"c", "1">>>>,
                                    <<sUserAgent, <<"c", "2">>>> >>
        /\ conn[c].res[1].body = Some(<<"c", "1">>)

\* The bytes of a response up to and including its blank line, for a 200
\* text/plain response whose body has n bytes.
EchoHead(n) ==
    sHttpPrefix \o s200 \o CRLF
    \o sContentTypeHdr \o sTextPlain \o <<LF>>
    \o sContentLengthHdr \o Decimal(n) \o <<LF>>
    \o CRLF

(***************************************************************************)
(* C14: for every path p that starts with "/echo/", the response to GET p  *)
(* is 200, text/plain, with a body equal byte for byte to p without its    *)
(* leading "/echo/" (empty segments kept: "/echo/" gives the empty body,   *)
(* "/echo/a//b" gives "a//b"), announced with a Content-Length equal to    *)
(* the length of that remainder.                                           *)
(***************************************************************************)
C14_EchoRemainder ==
    \A c \in Conns :
        LET r == conn[c]
            rest == SubSeq(r.req.path, Len(sEchoPrefix) + 1, Len(r.req.path))
        IN
        (r.res # None /\ r.req.method = sGET /\ StartsWith(r.req.path, sEchoPrefix))
        => /\ r.res[1].status = "OK"
           /\ r.res[1].content_type = Some(sTextPlain)
           /\ r.res[1].body = Some(rest)
           /\ r.pc = "w_body" => r.wire = EchoHead(Len(rest))
           /\ r.pc = "done" => IsPrefix(EchoHead(Len(rest)), r.wire)

\* GET /echo/a//b: the body to write is a//b, announced with length 4.
C14_Witness ==
    \E c \in Conns :
        /\ conn[c].pc = "w_body"
        /\ conn[c].req.path = pEchoABB
        /\ conn[c].res[1].body = Some(<<"a", "/", "/", "b">>)
        /\ conn[c].wire = EchoHead(4)

\* The first line the client sends, without its terminator (CRLF or LF); the
\* whole stream when it holds no LF.
FirstLineOf(client) ==
    LET s == Flatten(client.segs)
        i == IndexOf(s, LF)
    IN
    IF i = 0 THEN s
    ELSE IF i > 1 /\ s[i - 1] = CR THEN SubSeq(s, 1, i - 2)
    ELSE SubSeq(s, 1, i - 1)

\* The thread of c has read the first line of its client, terminator included.
FirstLineRead(c) ==
    LET i == IndexOf(Flatten(conn[c].client.segs), LF) IN
    i > 0 /\ conn[c].consumed >= i

\* No handler ran for c and nothing was written to it.
NothingDone(c) ==
    /\ conn[c].pc \notin {"route", "done"} \cup WritePcs
    /\ conn[c].res = None
    /\ conn[c].wire = <<>>

\* What a first line of three tokens, ended by CRLF, leaves in the request.
ThreeTokensStored(c) ==
    LET s == Flatten(conn[c].client.segs)
        i == IndexOf(s, LF)
        tokens == Split(FirstLineOf(conn[c].client), SP)
    IN
    (FirstLineRead(c) /\ Len(tokens) = 3 /\ i > 1 /\ s[i - 1] = CR
     /\ IsUtf8(FirstLineOf(conn[c].client)))
    => /\ conn[c].req.method = tokens[1]
       /\ conn[c].req.path = tokens[2]
       /\ conn[c].req.http_info = tokens[3]

(***************************************************************************)
(* C15: when the first line of a connection does not split on single       *)
(* spaces into exactly three tokens, no handler runs for the connection    *)
(* and no response byte is written; when it does, method, path and version *)
(* are those three tokens, unmodified.                                     *)
(***************************************************************************)
C15_RequestLineThreeTokens ==
    \A c \in Conns :
        /\ (FirstLineRead(c) /\ Len(Split(FirstLineOf(conn[c].client), SP)) # 3)
             => NothingDone(c)
        /\ ThreeTokensStored(c)

\* The same for every first line but the blank one: a first line of another
\* token count that is not empty is fatal, three tokens are stored.
NonBlankRequestLineThreeTokens ==
    \A c \in Conns :
        /\ ( /\ FirstLineRead(c)
             /\ FirstLineOf(conn[c].client) # <<>>
             /\ Len(Split(FirstLineOf(conn[c].client), SP)) # 3 )
             => NothingDone(c)
        /\ ThreeTokensStored(c)

\* The position in s, counted from off, of the LF that ends the first line
\* of the header block ending with a bare LF; 0 when the block has none.
RECURSIVE BareLFPos(_, _)
BareLFPos(s, off) ==
    LET i == IndexOf(s, LF) IN
    IF i = 0 \/ SubSeq(s, 1, i) = CRLF THEN 0
    ELSE IF i = 1 \/ s[i - 1] # CR THEN off + i
    ELSE BareLFPos(SubSeq(s, i + 1, Len(s)), off + i)

\* The stream s has a line that is exactly CRLF.
RECURSIVE HasBlankLine(_)
HasBlankLine(s) ==
    LET i == IndexOf(s, LF) IN
    IF i = 0 THEN FALSE
    ELSE IF SubSeq(s, 1, i) = CRLF THEN TRUE
    ELSE HasBlankLine(SubSeq(s, i + 1, Len(s)))

\* The client ends its stream inside a line of the header block.
CutOffLine(client) ==
    LET s == Flatten(client.segs) IN
    /\ client.close
    /\ s # <<>>
    /\ s[Len(s)] # LF
    /\ ~HasBlankLine(s)

(***************************************************************************)
(* C16: a line of the header block that ends with a bare LF (a line of     *)
(* only LF included), or a last line cut off by the end of the stream,     *)
(* makes read_request fail: no handler runs and nothing is written; a line *)
(* that ends with CRLF and holds no ": " is skipped, the headers being     *)
(* only those of the lines that hold one.                                  *)
(***************************************************************************)
C16_LinesEndWithCRLF ==
    \A c \in Conns :
        LET r == conn[c]
            s == Flatten(r.client.segs)
            p == BareLFPos(s, 0)
        IN
        /\ (p > 0 \/ CutOffLine(r.client)) => NothingDone(c)
        /\ (p > 0 /\ r.consumed >= p) => r.pc = "error"
        /\ ( /\ CutOffLine(r.client)
             /\ r.eof /\ r.consumed = Len(s) /\ r.buf = <<>> /\ p = 0 )
             => r.pc \in {"error", "panicked"}
        /\ IsPrefix(r.req.headers, HeadersOf(AfterRequestLine(r.client)))

\* After a good request line the client sent a line of only LF: read_request
\* failed on it, nothing was routed or written.
C16_Witness ==
    \E c \in Conns :
        /\ conn[c].client.segs = <<ReqLine(sGET, sRoot) \o <<LF>>>>
        /\ conn[c].pc = "error"
        /\ conn[c].req.path = sRoot
        /\ conn[c].consumed = Len(ReqLine(sGET, sRoot)) + 1
        /\ conn[c].wire = <<>>

\* The first segment of path after "/files/": up to the next slash or the end.
FirstSegment(path) ==
    LET rest == SubSeq(path, Len(sFilesPrefix) + 1, Len(path))
        i == IndexOf(rest, "/")
    IN IF i = 0 THEN rest ELSE SubSeq(rest, 1, i - 1)

\* A 200 to a GET under /files/ carries the file named by the first segment.
C17_GetReadsFirstSegment ==
    \A c \in Conns :
        LET r == conn[c] IN
        ( /\ r.res # None
          /\ TableRoute(r.req.method, r.req.path) = "get_file"
          /\ r.res[1].status = "OK" )
        => /\ FirstSegment(r.req.path) \in DOMAIN fs
           /\ r.res[1].body = Some(fs[FirstSegment(r.req.path)])

\* A step that handles a request under /files/ changes no file but, for a
\* POST, the one named by the first segment, which a 201 leaves holding the
\* body of the request.
C17_FileStep ==
    \A c \in Conns :
        ( /\ conn[c].pc = "route"
          /\ conn'[c].pc # "route"
          /\ TableRoute(conn[c].req.method, conn[c].req.path)
               \in {"get_file", "post_file"} )
        => LET name == FirstSegment(conn[c].req.path) IN
           /\ \A n \in (DOMAIN fs \cup DOMAIN fs') \ {name} :
                 n \in DOMAIN fs /\ n \in DOMAIN fs' /\ fs'[n] = fs[n]
           /\ (conn'[c].res # None /\ conn'[c].res[1].status = "Created")
                => (name \in DOMAIN fs' /\ fs'[name] = conn[c].req.body)
           /\ (conn'[c].res = None \/ conn'[c].res[1].status # "Created")
                => fs' = fs

(***************************************************************************)
(* C17: in both file handlers the file name is the first path segment      *)
(* after "/files/" only: for a path /files/a/<rest> the file accessed is   *)
(* a of the base directory, so a GET /files/a/c (or /files/a) after a POST *)
(* /files/a/b returns the body that POST wrote, and no file of another     *)
(* name is read or written.                                                *)
(***************************************************************************)
C17_FirstSegmentIsFileName == []C17_GetReadsFirstSegment /\ [][C17_FileStep]_vars

\* POST /files/x/y wrote the body c; a later GET /files/x/z gets c back.
C17_Witness ==
    /\ <<"x">> \in DOMAIN sentBody
    /\ sentBody[<<"x">>] = <<"c">>
    /\ DOMAIN fs = {<<"x">>}
    /\ fs[<<"x">>] = <<"c">>
    /\ conn[2].req.method = sGET
    /\ conn[2].req.path = pFilesXZ
    /\ conn[2].res = Some(Response("OK", Some(<<"c">>), Some(sOctetStream)))

\* The client sends a complete, well-formed request: a first line of three
\* tokens, every line of the header block ended by CRLF, the blank line, and
\* no byte that is not UTF-8.
WellFormed(client) ==
    LET s == Flatten(client.segs) IN
    /\ HasBlankLine(s)
    /\ BareLFPos(s, 0) = 0
    /\ Len(Split(FirstLineOf(client), SP)) = 3
    /\ IsUtf8(s)

\* Whatever the connections before it do, the next one can be accepted.
C18_AcceptorFree ==
    \A c \in Conns :
        ( /\ conn[c].pc = "idle"
          /\ IF c = 1 THEN TRUE ELSE conn[c - 1].pc # "idle" )
        => ENABLED AcceptConcurrent(c)

\* The thread of a well-formed request fails only by a failure of its own
\* socket, in a step that is its own.
C18_OwnFailureStep ==
    \A c \in Conns :
        ( /\ WellFormed(conn[c].client)
          /\ conn[c].pc \in LivePcs
          /\ conn'[c].pc \in {"error", "panicked"} )
        => (ReadFail(c) \/ WriteFail(c) \/ ThreadStartPanic(c))

C19_BodyWrittenInFull ==
    \A c \in Conns :
        (conn[c].pc = "done" /\ HasHeaders(conn[c].res[1]))
        => /\ Len(AfterHeaderBlock(conn[c].wire)) = Len(conn[c].res[1].body[1])
           /\ AfterHeaderBlock(conn[c].wire) = conn[c].res[1].body[1]

\* A request about to be handed to a file handler has a path that leaves at
\* least one segment after the first two.
C20_PartsNotEmpty ==
    \A c \in Conns :
        ( /\ conn[c].pc = "route"
          /\ RouteOf(conn[c].req.method, conn[c].req.path) \in {"get_file", "post_file"} )
        => /\ Len(Split(conn[c].req.path, "/")) >= 3
           /\ Len(PathParts(conn[c].req.path)) >= 1

\* No thread panics in the step of the router and the handlers.
C20_RouteStep ==
    \A c \in Conns : conn[c].pc = "route" => conn'[c].pc # "panicked"

(***************************************************************************)
(* C20: parts[0] in handle_get_file and handle_post_file is never out of   *)
(* bounds: every path the router hands them starts with "/files/" (the     *)
(* path "/files/" itself included), so that splitting on "/" and skipping  *)
(* two segments leaves at least one; the file handlers never panic.        *)
(***************************************************************************)
C20_FileHandlersNeverPanic == []C20_PartsNotEmpty /\ [][C20_RouteStep]_vars

\* GET /files/ was handled: the one segment left is the empty name, and the
\* handler returned a response.
C20_Witness ==
    \E c \in Conns :
        /\ dir # None
        /\ conn[c].pc = "w_status"
        /\ conn[c].req.method = sGET
        /\ conn[c].req.path = sFilesPrefix
        /\ PathParts(conn[c].req.path) = <<<<>>>>
        /\ conn[c].res # None

=============================================================================
